---- MODULE Spec2Model ----
(***************************************************************************)
(* Model of src/src/kbd.rs: the 8-byte command header and its checksum,    *)
(* the FusionKBD session (new, set_preset, download_custom, upload_custom, *)
(* set_custom, get_key) and its Drop.  The USB transport (rusb) is the     *)
(* environment: every transfer's outcome is an input of the operation.     *)
(***************************************************************************)
EXTENDS Integers, Sequences, FiniteSets

VARIABLES
    sess,     \* "none" | "open" | "dropped": whether a FusionKBD value exists
    kdrv,     \* interfaces a kernel driver is bound to
    claimed,  \* interfaces the handle holds a claim on
    hcalls,   \* handle calls (open/detach/claim/release/attach) of the last new or drop
    xfers,    \* control and interrupt transfers issued by the last call, in order
    last,     \* the last call: operation, arguments, result, caller's buffer
    dev,      \* what the record/replay transport has recorded
    hdr,      \* input tuple and result of a Header::new evaluation
    failed    \* whether a call on the session has returned Err or panicked

vars == <<sess, kdrv, claimed, hcalls, xfers, last, dev, hdr, failed>>

----------------------------------------------------------------------------
(* Bounds of the model *)

\* largest slot argument tried (u8 in the code); 5 and above are invalid
MaxSlot == 6
\* how many chunks of one operation may report a short count
MaxShorts == 1

(* Program constants *)

KIND_PRESET == 8
KIND_CUSTOM_CONFIG == 18
KIND_READ_CONFIG == 146
\* assert!(slot < 5)
NumSlots == 5
\* for i in 0..8
NumChunks == 8
\* let end = start + 64
ChunkLen == 64
\* data: &mut [u8; 512]
ConfigLen == 512
\* 0x33 + slot
CustomModeBase == 51
\* endpoints
EP_UPLOAD == 6
EP_DOWNLOAD == 133
EP_KEY == 129
\* control transfer parameters
REQ_SET_REPORT == 9
REQ_GET_REPORT == 1
W_VALUE == 768
W_INDEX == 3
\* wValue and wIndex of the read_control call of download_custom
HandshakeValue == 768
HandshakeIndex == 3
\* Duration::from_millis(10)
KeyTimeoutMs == 10
\* u8 arithmetic
ByteMod == 256

\* a transfer that returned Err(_), and one that returned Err(Timeout)
ERR == -1
TIMEOUT == -2
\* field value of a transfer record where the field does not apply
NA == 0 - 1

Byte == 0..(ByteMod - 1)

----------------------------------------------------------------------------
(* Header codec *)

\* u8::wrapping_add
WrappingAdd(a, b) == (a + b) % ByteMod

NotU8Neg(x) == (ByteMod - x) % ByteMod
\* the ! operator on u8
NotU8(x) == (ByteMod - 1) - x

AsBytesReservedLast(h) ==
    <<h.kind, h.mode, h.speed_length, h.brightness, h.color,
      h.reserved, h.reserved2, h.checksum>>
\* Header::as_bytes: the #[repr(C, packed)] struct seen as [u8; 8],
\* fields in declaration order
as_bytes(h) ==
    <<h.kind, h.reserved, h.mode, h.speed_length, h.brightness, h.color,
      h.reserved2, h.checksum>>

\* .iter().take(n).fold(0, |sum, x| sum.wrapping_add(*x))
RECURSIVE FoldWrappingAdd(_, _)
FoldWrappingAdd(bytes, n) ==
    IF n = 0 THEN 0
    ELSE WrappingAdd(FoldWrappingAdd(bytes, n - 1), bytes[n])

\* Header::new
HeaderNew(kind, mode, speed_length, brightness, color) ==
    LET header == [kind |-> kind, mode |-> mode, speed_length |-> speed_length,
                   brightness |-> brightness, color |-> color,
                   reserved |-> 0, reserved2 |-> 0, checksum |-> 0]
    IN  [header EXCEPT !.checksum = NotU8(FoldWrappingAdd(as_bytes(header), 7))]

----------------------------------------------------------------------------
(* Inputs: payloads, device contents, transfer outcomes *)

\* speed_length of the upload header
UploadLengthHint == 8

\* request types built by rusb::request_type(_, Class, Interface)
RT_OUT == 33
RT_IN == 161

\* payload patterns; in each, the eight 64-byte chunks are pairwise different
DataByte(pat, i) ==
    IF pat = 0 THEN (i \div 2) % ByteMod
    ELSE (ByteMod - 1) - ((i \div 2) % ByteMod)

\* the caller's data: `len` bytes of pattern `pat`, byte i of Rust at index i + 1
Data(pat, len) == [k \in 1..len |-> DataByte(pat, k - 1)]

Patterns == {0, 1}
\* lengths of the data slice handed to upload_custom (it is a &[u8])
DataLens == {0, 2 * ChunkLen + 2, ConfigLen - 1, ConfigLen, ConfigLen + ChunkLen}

\* what the caller's 512-byte buffer holds before download_custom
FreshBuffer == [k \in 1..ConfigLen |-> 238]

\* counts a transfer of a 64-byte chunk may report when it is short
ShortCounts == {0, ChunkLen - 1}

ShortSets(e) == {S \in SUBSET (0..(e - 1)) : Cardinality(S) <= MaxShorts}

\* outcome of each chunk transfer of one operation: the count it reports, or
\* ERR.  e is the chunk whose transfer fails (NumChunks: none); chunks after
\* it are never transferred, so their outcome is left at ChunkLen.
ChunkOutcomes ==
    UNION { { [i \in 0..(NumChunks - 1) |->
                 IF i = e THEN ERR ELSE IF i \in S THEN c ELSE ChunkLen]
              : S \in ShortSets(e), c \in ShortCounts }
            : e \in 0..NumChunks }

\* outcome of a control transfer of 8 bytes
ControlOutcomes == {8, ERR}

\* bytes start..end-1 (Rust indices) of a slice
Slice(bytes, start, end) == SubSeq(bytes, start + 1, end)

\* buffer `buf` after `n` bytes of `src` were stored from Rust index `start` on
Store(buf, start, src, n) ==
    [k \in 1..Len(buf) |->
        IF k > start /\ k <= start + n THEN src[k - start] ELSE buf[k]]

----------------------------------------------------------------------------
(* Transfers *)

Xfer(dir, rt, req, val, idx, ep, tmo, off, len, buf, res, h) ==
    [dir |-> dir, rt |-> rt, req |-> req, val |-> val, idx |-> idx,
     ep |-> ep, tmo |-> tmo, off |-> off, len |-> len, buf |-> buf,
     res |-> res, hdr |-> h]

\* FusionKBD::write_control_kbd: the header's bytes as one control Out transfer
WriteControlKbd(header, res) ==
    Xfer("control_out", RT_OUT, REQ_SET_REPORT, W_VALUE, W_INDEX, NA, 0, NA, 8,
         as_bytes(header), res, header)

\* the handshake sent with the request of the header transfer
ReadControlSetReport(res) ==
    Xfer("control_in", RT_IN, REQ_SET_REPORT, HandshakeValue, HandshakeIndex,
         NA, 0, NA, 8, <<>>, res, <<>>)

\* handle.read_control(...) of download_custom, into a dummy 8-byte buffer
\* whose contents are dropped
ReadControl(res) ==
    Xfer("control_in", RT_IN, REQ_GET_REPORT, HandshakeValue, HandshakeIndex,
         NA, 0, NA, 8, <<>>, res, <<>>)

\* handle.write_interrupt(6, &data[start..end], 0)
WriteInterrupt(chunk, start, res) ==
    Xfer("interrupt_out", NA, NA, NA, NA, EP_UPLOAD, 0, start, Len(chunk), chunk, res, <<>>)

\* handle.read_interrupt(ep, &mut buf[start..start+len], tmo); buf: bytes stored
ReadInterrupt(ep, tmo, start, len, got, res) ==
    Xfer("interrupt_in", NA, NA, NA, NA, ep, tmo, start, len, got, res, <<>>)

----------------------------------------------------------------------------
(* Operations of FusionKBD, each as the result of the whole call:            *)
(* [xfers: transfers issued, res: "Ok" | "Err" | "Panic" | ..., out: the     *)
(* caller's buffer afterwards, diags: chunks reported on stderr]             *)

Outcome(x, res, out, diags) == [xfers |-> x, res |-> res, out |-> out, diags |-> diags]

IsErrNever(tf) == FALSE
\* the ? operator on a transfer's result: whether it is an Err, which returns
IsErr(tf) == tf = ERR

SlotOkInclusive(slot) == slot <= NumSlots
\* assert!(slot < 5)
SlotOk(slot) == slot < NumSlots

UploadStartOverlap(i) == i * (ChunkLen - 1)
\* let start = i * 64 in upload_custom
UploadStart(i) == i * ChunkLen

DownloadStartFixed(i) == 0
\* let start = i * 64 in download_custom
DownloadStart(i) == i * ChunkLen

\* set_preset that sends the header a second time when the transfer failed
SetPresetRetry(preset, speed, brightness, color, ctl) ==
    LET header == HeaderNew(KIND_PRESET, preset, speed, brightness, color)
        w == WriteControlKbd(header, ctl)
    IN  IF IsErr(ctl) THEN Outcome(<<w, WriteControlKbd(header, 8)>>, "Ok", <<>>, <<>>)
        ELSE Outcome(<<w>>, "Ok", <<>>, <<>>)

\* FusionKBD::set_preset; preset and color are the values of `preset as u8`
\* and `color as u8`
SetPreset(preset, speed, brightness, color, ctl) ==
    LET header == HeaderNew(KIND_PRESET, preset, speed, brightness, color)
        w == WriteControlKbd(header, ctl)
    IN  Outcome(<<w>>, IF IsErr(ctl) THEN "Err" ELSE "Ok", <<>>, <<>>)

\* set_custom that uses the slot itself as the mode
SetCustomNoBase(slot, brightness, ctl) ==
    IF ~SlotOk(slot) THEN Outcome(<<>>, "Panic", <<>>, <<>>)
    ELSE LET header == HeaderNew(KIND_PRESET, slot, 0, brightness, 0)
             w == WriteControlKbd(header, ctl)
         IN  Outcome(<<w>>, IF IsErr(ctl) THEN "Err" ELSE "Ok", <<>>, <<>>)

\* FusionKBD::set_custom
SetCustom(slot, brightness, ctl) ==
    IF ~SlotOk(slot) THEN Outcome(<<>>, "Panic", <<>>, <<>>)
    ELSE LET header == HeaderNew(KIND_PRESET, (CustomModeBase + slot) % ByteMod,
                                 0, brightness, 0)
             w == WriteControlKbd(header, ctl)
         IN  Outcome(<<w>>, IF IsErr(ctl) THEN "Err" ELSE "Ok", <<>>, <<>>)

\* the loop of upload_custom with a short count treated as a failure
RECURSIVE UploadChunksAbortOnShort(_, _, _, _, _)
UploadChunksAbortOnShort(i, data, oc, acc, diags) ==
    IF i = NumChunks THEN Outcome(acc, "Ok", <<>>, diags)
    ELSE
        LET start == UploadStart(i)
            end == start + ChunkLen
        IN  IF end > Len(data)
            THEN Outcome(acc, "Panic", <<>>, diags)
            ELSE
                LET tf == oc[i]
                    x == WriteInterrupt(Slice(data, start, end), start, tf)
                IN  IF IsErr(tf) \/ tf # ChunkLen
                    THEN Outcome(Append(acc, x), "Err", <<>>, diags)
                    ELSE UploadChunksAbortOnShort(i + 1, data, oc, Append(acc, x), diags)

\* the for loop of upload_custom, from chunk i on
RECURSIVE UploadChunks(_, _, _, _, _)
UploadChunks(i, data, oc, acc, diags) ==
    IF i = NumChunks THEN Outcome(acc, "Ok", <<>>, diags)
    ELSE
        LET start == UploadStart(i)
            end == start + ChunkLen
        IN  IF end > Len(data)
            THEN Outcome(acc, "Panic", <<>>, diags)  \* &data[start..end] out of range
            ELSE
                LET tf == oc[i]
                    x == WriteInterrupt(Slice(data, start, end), start, tf)
                IN  IF IsErr(tf)
                    THEN Outcome(Append(acc, x), "Err", <<>>, diags)
                    ELSE UploadChunks(i + 1, data, oc, Append(acc, x),
                                      IF tf # ChunkLen THEN Append(diags, i) ELSE diags)

\* upload_custom that rejects data shorter than 512 bytes before any transfer
UploadCustomChecksLength(slot, data, ctl, oc) ==
    IF ~SlotOk(slot) \/ Len(data) < ConfigLen THEN Outcome(<<>>, "Panic", <<>>, <<>>)
    ELSE LET header == HeaderNew(KIND_CUSTOM_CONFIG, slot, UploadLengthHint, 0, 0)
             w == WriteControlKbd(header, ctl)
         IN  IF IsErr(ctl) THEN Outcome(<<w>>, "Err", <<>>, <<>>)
             ELSE UploadChunks(0, data, oc, <<w>>, <<>>)

\* an upload that also sends the activation header of set_custom for the slot
UploadCustomActivates(slot, data, ctl, oc) ==
    IF ~SlotOk(slot) THEN Outcome(<<>>, "Panic", <<>>, <<>>)
    ELSE LET header == HeaderNew(KIND_CUSTOM_CONFIG, slot, UploadLengthHint, 0, 0)
             w == WriteControlKbd(header, ctl)
             u == UploadChunks(0, data, oc, <<w>>, <<>>)
             a == WriteControlKbd(HeaderNew(KIND_PRESET, CustomModeBase + slot,
                                            0, 0, 0), ctl)
         IN  IF IsErr(ctl) THEN Outcome(<<w>>, "Err", <<>>, <<>>)
             ELSE IF u.res = "Ok" THEN Outcome(Append(u.xfers, a), "Ok", u.out, u.diags)
             ELSE u

\* FusionKBD::upload_custom
UploadCustom(slot, data, ctl, oc) ==
    IF ~SlotOk(slot) THEN Outcome(<<>>, "Panic", <<>>, <<>>)
    ELSE LET header == HeaderNew(KIND_CUSTOM_CONFIG, slot, UploadLengthHint, 0, 0)
             w == WriteControlKbd(header, ctl)
         IN  IF IsErr(ctl) THEN Outcome(<<w>>, "Err", <<>>, <<>>)
             ELSE UploadChunks(0, data, oc, <<w>>, <<>>)

\* the for loop of download_custom, from chunk i on; image: the eight chunks
\* the device sends on endpoint 0x85
RECURSIVE DownloadChunks(_, _, _, _, _, _)
DownloadChunks(i, data, oc, image, acc, diags) ==
    IF i = NumChunks THEN Outcome(acc, "Ok", data, diags)
    ELSE
        LET start == DownloadStart(i)
            end == start + ChunkLen
            tf == oc[i]
            n == IF tf < 0 THEN 0 ELSE tf
            x == ReadInterrupt(EP_DOWNLOAD, 0, start, end - start,
                               SubSeq(image[i + 1], 1, n), tf)
            data2 == Store(data, start, image[i + 1], n)
        IN  IF IsErr(tf)
            THEN Outcome(Append(acc, x), "Err", data2, diags)
            ELSE DownloadChunks(i + 1, data2, oc, image, Append(acc, x),
                                IF tf # ChunkLen THEN Append(diags, i) ELSE diags)

\* download_custom without the control In handshake
DownloadCustomNoHandshake(slot, data, ctl, ctl2, oc, image) ==
    IF ~SlotOk(slot) THEN Outcome(<<>>, "Panic", data, <<>>)
    ELSE LET w == WriteControlKbd(HeaderNew(KIND_READ_CONFIG, slot, 0, 0, 0), ctl)
         IN  IF IsErr(ctl) THEN Outcome(<<w>>, "Err", data, <<>>)
             ELSE DownloadChunks(0, data, oc, image, <<w>>, <<>>)

\* download_custom that drops the result of the handshake (let _ = ...)
DownloadCustomIgnoreHandshake(slot, data, ctl, ctl2, oc, image) ==
    IF ~SlotOk(slot) THEN Outcome(<<>>, "Panic", data, <<>>)
    ELSE LET w == WriteControlKbd(HeaderNew(KIND_READ_CONFIG, slot, 0, 0, 0), ctl)
             r == ReadControl(ctl2)
         IN  IF IsErr(ctl) THEN Outcome(<<w>>, "Err", data, <<>>)
             ELSE DownloadChunks(0, data, oc, image, <<w, r>>, <<>>)

\* FusionKBD::download_custom
DownloadCustom(slot, data, ctl, ctl2, oc, image) ==
    IF ~SlotOk(slot) THEN Outcome(<<>>, "Panic", data, <<>>)
    ELSE LET w == WriteControlKbd(HeaderNew(KIND_READ_CONFIG, slot, 0, 0, 0), ctl)
             r == ReadControl(ctl2)
         IN  IF IsErr(ctl) THEN Outcome(<<w>>, "Err", data, <<>>)
             ELSE IF IsErr(ctl2) THEN Outcome(<<w, r>>, "Err", data, <<>>)
             ELSE DownloadChunks(0, data, oc, image, <<w, r>>, <<>>)

\* get_key that hands the transfer's error to its caller
GetKeyPropagate(report, tf) ==
    LET buf0 == [k \in 1..8 |-> 0]
        n == IF tf < 0 THEN 0 ELSE tf
        buf == Store(buf0, 0, report, n)
        x == ReadInterrupt(EP_KEY, KeyTimeoutMs, 0, 8, SubSeq(report, 1, n), tf)
    IN  Outcome(<<x>>, IF tf < 0 THEN "Err" ELSE IF buf[3] # 0 THEN "Some" ELSE "None",
                buf, <<>>)

\* FusionKBD::get_key; report: the 8 bytes the keyboard would send, tf: the
\* count the transfer reports, or ERR, or TIMEOUT
GetKey(report, tf) ==
    LET buf0 == [k \in 1..8 |-> 0]
        n == IF tf < 0 THEN 0 ELSE tf
        buf == Store(buf0, 0, report, n)
        x == ReadInterrupt(EP_KEY, KeyTimeoutMs, 0, 8, SubSeq(report, 1, n), tf)
    IN  Outcome(<<x>>, IF buf[3] # 0 THEN "Some" ELSE "None", buf, <<>>)

----------------------------------------------------------------------------
(* Session lifecycle *)

\* the two interfaces of the keyboard the session uses
Ifaces == {0, 3}

HCall(call, iface, res) == [call |-> call, iface |-> iface, res |-> res]

Did(st, call, iface, res) == [st EXCEPT !.calls = Append(@, HCall(call, iface, res))]

\* the DeviceHandle going out of scope: rusb releases what it still holds
HandleDrop(st) == [st EXCEPT !.claimed = {}]

\* if handle.kernel_driver_active(iface)? { handle.detach_kernel_driver(iface)?; }
DetachIfActive(iface, st, fail) ==
    IF st.res # "run" THEN st
    ELSE IF fail = <<"kernel_driver_active", iface>>
    THEN [Did(st, "kernel_driver_active", iface, "err") EXCEPT !.res = "Err"]
    ELSE IF iface \notin st.kdrv
    THEN Did(st, "kernel_driver_active", iface, "false")
    ELSE LET st1 == Did(st, "kernel_driver_active", iface, "true")
         IN  IF fail = <<"detach_kernel_driver", iface>>
             THEN [Did(st1, "detach_kernel_driver", iface, "err") EXCEPT !.res = "Err"]
             ELSE [Did(st1, "detach_kernel_driver", iface, "ok")
                      EXCEPT !.kdrv = @ \ {iface}]

\* claim_interface whose result is dropped (let _ = ...)
ClaimInterfaceIgnoreErr(iface, st, fail) ==
    IF st.res # "run" THEN st
    ELSE IF fail = <<"claim_interface", iface>>
    THEN Did(st, "claim_interface", iface, "err")
    ELSE [Did(st, "claim_interface", iface, "ok") EXCEPT !.claimed = @ \cup {iface}]

\* handle.claim_interface(iface)?
ClaimInterface(iface, st, fail) ==
    IF st.res # "run" THEN st
    ELSE IF fail = <<"claim_interface", iface>>
    THEN [Did(st, "claim_interface", iface, "err") EXCEPT !.res = "Err"]
    ELSE [Did(st, "claim_interface", iface, "ok") EXCEPT !.claimed = @ \cup {iface}]

\* what may fail in new after the device was opened
NewFailures ==
    {<<"none", NA>>} \cup
    ({"kernel_driver_active", "detach_kernel_driver", "claim_interface"} \X Ifaces)

\* FusionKBD::new; present: whether open_device_with_vid_pid finds the keyboard
New(present, kd, fail) ==
    LET s0 == [calls |-> <<>>, kdrv |-> kd, claimed |-> {}, res |-> "run"]
    IN  IF ~present
        THEN [Did(s0, "open_device_with_vid_pid", NA, "none") EXCEPT !.res = "Err"]
        ELSE LET s1 == Did(s0, "open_device_with_vid_pid", NA, "some")
                 s2 == DetachIfActive(0, s1, fail)
                 s3 == DetachIfActive(3, s2, fail)
                 s4 == ClaimInterface(0, s3, fail)
                 s5 == ClaimInterface(3, s4, fail)
             IN  IF s5.res = "run" THEN [s5 EXCEPT !.res = "Ok"] ELSE HandleDrop(s5)

\* the sub-steps of drop, in the order of the source
DropSteps ==
    << <<"release_interface", 0>>, <<"release_interface", 3>>,
       <<"attach_kernel_driver", 0>>, <<"attach_kernel_driver", 3>> >>

\* let _ = self.handle.<call>(iface);  F: the sub-steps (by position) that fail
RECURSIVE DropRun(_, _, _, _)
DropRun(steps, k, st, F) ==
    IF k > Len(steps) THEN st
    ELSE LET call == steps[k][1]
             iface == steps[k][2]
             ok == k \notin F
             st1 == Did(st, call, iface, IF ok THEN "ok" ELSE "err")
             st2 == IF ~ok THEN st1
                    ELSE IF call = "release_interface"
                    THEN [st1 EXCEPT !.claimed = @ \ {iface}]
                    ELSE [st1 EXCEPT !.kdrv = @ \cup {iface}]
         IN  DropRun(steps, k + 1, st2, F)

\* the same sub-steps with the reattach of the kernel drivers first
DropReattachFirst(kd, cl, F) ==
    HandleDrop(DropRun(<<DropSteps[3], DropSteps[4], DropSteps[1], DropSteps[2]>>, 1,
                       [calls |-> <<>>, kdrv |-> kd, claimed |-> cl, res |-> "Ok"], F))

\* drop that gives up at the first sub-step that fails, and reports it
DropStopAtFailure(kd, cl, F) ==
    LET first == IF F = {} THEN Len(DropSteps) + 1
                 ELSE CHOOSE k \in F : \A j \in F : k <= j
        st == DropRun(SubSeq(DropSteps, 1, IF first > Len(DropSteps) THEN Len(DropSteps) ELSE first),
                      1, [calls |-> <<>>, kdrv |-> kd, claimed |-> cl, res |-> "Ok"], F)
    IN  HandleDrop([st EXCEPT !.res = IF F = {} THEN "Ok" ELSE "Err"])

\* teardown run a second time on the same handle
DropTwice(kd, cl, F) ==
    HandleDrop(DropRun(DropSteps \o DropSteps, 1,
                       [calls |-> <<>>, kdrv |-> kd, claimed |-> cl, res |-> "Ok"], F))

\* Drop for FusionKBD, then the drop of its handle field
Drop(kd, cl, F) ==
    HandleDrop(DropRun(DropSteps, 1,
                       [calls |-> <<>>, kdrv |-> kd, claimed |-> cl, res |-> "Ok"], F))

----------------------------------------------------------------------------
(* Arguments the calls are tried with *)

\* slot: u8
Slots == 0..MaxSlot
\* enum Preset with its discriminants (preset as u8)
PresetCode ==
    [Static |-> 1, Breathing |-> 2, Wave |-> 3, FadeOnKeypress |-> 4, Marquee |-> 5,
     Ripple |-> 6, FlashOnKeypress |-> 7, Neon |-> 8, RainbowMarquee |-> 9,
     Raindrop |-> 10, CircleMarquee |-> 11, Hedge |-> 12, Rotate |-> 13]
\* enum Color with its discriminants (color as u8)
ColorCode ==
    [Rand |-> 0, Red |-> 1, Green |-> 2, Yellow |-> 3, Blue |-> 4, Orange |-> 5,
     Purple |-> 6, White |-> 7]
Presets == DOMAIN PresetCode
Colors == DOMAIN ColorCode
\* speed: u8, brightness: u8
Speeds == {0, 5}
Brightnesses == {20, 30, 255}

\* what the device sends in answer to a download: eight 64-byte chunks
DevImages ==
    { [i \in 1..NumChunks |->
          Slice(Data(p, ConfigLen), (i - 1) * ChunkLen, i * ChunkLen)]
      : p \in Patterns }

\* what the keyboard sends on endpoint 0x81, and the counts the transfer reports
KeyReports ==
    { <<0, 0, 0, 0, 0, 0, 0, 0>>, <<0, 0, 4, 0, 0, 0, 0, 0>>, <<2, 0, 0, 0, 0, 0, 0, 0>> }
KeyOutcomes == {8, 3, 2, 0, ERR, TIMEOUT}

Call(op, slot, pat, len, preset, speed, brightness, color, o) ==
    [op |-> op, slot |-> slot, pat |-> pat, len |-> len, preset |-> preset,
     speed |-> speed, brightness |-> brightness, color |-> color,
     res |-> o.res, out |-> o.out, diags |-> o.diags]

\* whether the session has seen a call fail, after a call with outcome o
Failed(o) == failed \/ o.res \in {"Err", "Panic"}

NoCall == Call("none", NA, NA, NA, NA, NA, NA, NA, Outcome(<<>>, "none", <<>>, <<>>))
NoRecord == [slot |-> NA, pat |-> NA, len |-> NA, chunks |-> <<>>, active |-> NA]
NoHeader == [in |-> <<>>, built |-> FALSE, out |-> <<>>]

----------------------------------------------------------------------------
(* The session as a state machine *)

Init ==
    /\ sess = "none"
    /\ kdrv \in SUBSET Ifaces
    /\ claimed = {}
    /\ hcalls = <<>>
    /\ xfers = <<>>
    /\ last = NoCall
    /\ dev = NoRecord
    /\ hdr = NoHeader
    /\ failed = FALSE

CallNew ==
    /\ sess = "none"
    /\ last = NoCall
    /\ \E present \in BOOLEAN, fail \in NewFailures :
         LET st == New(present, kdrv, fail)
         IN  /\ sess' = IF st.res = "Ok" THEN "open" ELSE "none"
             /\ kdrv' = st.kdrv
             /\ claimed' = st.claimed
             /\ hcalls' = st.calls
             /\ xfers' = <<>>
             /\ last' = Call("new", NA, NA, NA, NA, NA, NA, NA,
                             Outcome(<<>>, st.res, <<>>, <<>>))
    /\ UNCHANGED <<dev, hdr, failed>>

CallSetPreset ==
    /\ sess = "open"
    /\ last = NoCall
    /\ \E preset \in Presets, speed \in Speeds, brightness \in Brightnesses,
          color \in Colors, ctl \in ControlOutcomes :
         LET o == SetPreset(PresetCode[preset], speed, brightness, ColorCode[color], ctl)
         IN  /\ xfers' = o.xfers
             /\ last' = Call("set_preset", NA, NA, NA, preset, speed, brightness, color, o)
             /\ failed' = Failed(o)
    /\ UNCHANGED <<sess, kdrv, claimed, hcalls, dev, hdr>>

CallSetCustom ==
    /\ sess = "open"
    /\ last = NoCall
    /\ \E slot \in Slots, brightness \in Brightnesses, ctl \in ControlOutcomes :
         LET o == SetCustom(slot, brightness, ctl)
         IN  /\ xfers' = o.xfers
             /\ last' = Call("set_custom", slot, NA, NA, NA, NA, brightness, NA, o)
             /\ failed' = Failed(o)
    /\ UNCHANGED <<sess, kdrv, claimed, hcalls, dev, hdr>>

CallUploadCustom ==
    /\ sess = "open"
    /\ last = NoCall
    /\ \E slot \in Slots, pat \in Patterns, len \in DataLens,
          ctl \in ControlOutcomes, oc \in ChunkOutcomes :
         LET o == UploadCustom(slot, Data(pat, len), ctl, oc)
         IN  /\ xfers' = o.xfers
             /\ last' = Call("upload_custom", slot, pat, len, NA, NA, NA, NA, o)
             /\ failed' = Failed(o)
    /\ UNCHANGED <<sess, kdrv, claimed, hcalls, dev, hdr>>

CallDownloadCustom ==
    /\ sess = "open"
    /\ last = NoCall
    /\ \E slot \in Slots, ctl \in ControlOutcomes, ctl2 \in ControlOutcomes,
          oc \in ChunkOutcomes, image \in DevImages :
         LET o == DownloadCustom(slot, FreshBuffer, ctl, ctl2, oc, image)
         IN  /\ xfers' = o.xfers
             /\ last' = Call("download_custom", slot, NA, NA, NA, NA, NA, NA, o)
             /\ failed' = Failed(o)
    /\ UNCHANGED <<sess, kdrv, claimed, hcalls, dev, hdr>>

CallGetKey ==
    /\ sess = "open"
    /\ last = NoCall
    /\ \E report \in KeyReports, tf \in KeyOutcomes :
         LET o == GetKey(report, tf)
         IN  /\ xfers' = o.xfers
             /\ last' = Call("get_key", NA, NA, NA, NA, NA, NA, NA, o)
             /\ failed' = Failed(o)
    /\ UNCHANGED <<sess, kdrv, claimed, hcalls, dev, hdr>>

CallDrop ==
    /\ sess = "open"
    /\ last = NoCall
    /\ \E F \in SUBSET (1..Len(DropSteps)) :
         LET st == Drop(kdrv, claimed, F)
         IN  /\ sess' = "dropped"
             /\ kdrv' = st.kdrv
             /\ claimed' = st.claimed
             /\ hcalls' = st.calls
             /\ xfers' = <<>>
             /\ last' = Call("drop", NA, NA, NA, NA, NA, NA, NA,
                             Outcome(<<>>, st.res, <<>>, <<>>))
    /\ UNCHANGED <<dev, hdr, failed>>

\* the call has returned: the caller is about to make its next call, and the
\* record of the finished call starts afresh
Return ==
    /\ last # NoCall
    /\ sess # "dropped"
    /\ last' = NoCall
    /\ xfers' = <<>>
    /\ hcalls' = <<>>
    /\ UNCHANGED <<sess, kdrv, claimed, dev, hdr, failed>>

Next ==
    \/ CallNew
    \/ CallSetPreset
    \/ CallSetCustom
    \/ CallUploadCustom
    \/ CallDownloadCustom
    \/ CallGetKey
    \/ CallDrop
    \/ Return

Spec == Init /\ [][Next]_vars

----------------------------------------------------------------------------
(* Header::new on its own: the inputs are drawn at the start, the one step    *)
(* builds the header                                                          *)

KindSample == {KIND_PRESET, KIND_CUSTOM_CONFIG, KIND_READ_CONFIG, 0, 255}
ByteSample == {0, 1, 127, 128, 200, 255}

HeaderInit ==
    /\ sess = "none"
    /\ kdrv = {}
    /\ claimed = {}
    /\ hcalls = <<>>
    /\ xfers = <<>>
    /\ last = NoCall
    /\ dev = NoRecord
    /\ failed = FALSE
    /\ hdr \in { [in |-> <<k, m, s, b, c>>, built |-> FALSE, out |-> <<>>] :
                 k \in KindSample, m \in ByteSample, s \in ByteSample,
                 b \in ByteSample, c \in ByteSample }

BuildHeader ==
    /\ ~hdr.built
    /\ hdr' = [hdr EXCEPT !.built = TRUE,
                          !.out = HeaderNew(hdr.in[1], hdr.in[2], hdr.in[3],
                                            hdr.in[4], hdr.in[5])]
    /\ UNCHANGED <<sess, kdrv, claimed, hcalls, xfers, last, dev, failed>>

NextHeader == BuildHeader

SpecHeader == HeaderInit /\ [][NextHeader]_vars

----------------------------------------------------------------------------
(* The session on a transport that records the chunks written on endpoint    *)
(* 0x06 for a slot and replays them, in order, on endpoint 0x85; it reports   *)
(* no error while it has a chunk to replay                                    *)

FullOutcome == [i \in 0..(NumChunks - 1) |-> ChunkLen]

\* the record after an upload: the slot of its header and the chunks written
Recorded(slot, pat, len, o) ==
    IF o.xfers = <<>> THEN dev
    ELSE [slot |-> slot, pat |-> pat, len |-> len,
          chunks |-> [k \in 1..(Len(o.xfers) - 1) |-> o.xfers[k + 1].buf],
          active |-> dev.active]

\* the headers of kind PRESET the device received among the transfers xs
PresetHeaders(xs) ==
    {k \in 1..Len(xs) : /\ xs[k].dir = "control_out"
                        /\ ~IsErr(xs[k].res)
                        /\ xs[k].buf[1] = KIND_PRESET}

\* the device's lighting mode after the transfers xs: the mode byte of the
\* last PRESET header received, the mode before if there was none
Activated(active, xs) ==
    IF PresetHeaders(xs) = {} THEN active
    ELSE xs[CHOOSE k \in PresetHeaders(xs) :
                \A j \in PresetHeaders(xs) : j <= k].buf[3]

\* the chunks the transport holds for a slot
Replay(slot) == IF dev.slot = slot THEN dev.chunks ELSE <<>>

ZeroChunk == [k \in 1..ChunkLen |-> 0]

ReplayImage(slot) ==
    [i \in 1..NumChunks |->
        IF i <= Len(Replay(slot)) THEN Replay(slot)[i] ELSE ZeroChunk]

ReplayOutcome(slot) ==
    [i \in 0..(NumChunks - 1) |-> IF i < Len(Replay(slot)) THEN ChunkLen ELSE ERR]

ReplayUpload ==
    /\ sess = "open"
    /\ last = NoCall
    /\ \E slot \in Slots, pat \in Patterns, len \in DataLens :
         LET o == UploadCustom(slot, Data(pat, len), 8, FullOutcome)
         IN  /\ xfers' = o.xfers
             /\ last' = Call("upload_custom", slot, pat, len, NA, NA, NA, NA, o)
             /\ failed' = Failed(o)
             /\ dev' = [Recorded(slot, pat, len, o)
                          EXCEPT !.active = Activated(dev.active, o.xfers)]
    /\ UNCHANGED <<sess, kdrv, claimed, hcalls, hdr>>

ReplayDownload ==
    /\ sess = "open"
    /\ last = NoCall
    /\ \E slot \in Slots :
         LET o == DownloadCustom(slot, FreshBuffer, 8, 8,
                                 ReplayOutcome(slot), ReplayImage(slot))
         IN  /\ xfers' = o.xfers
             /\ last' = Call("download_custom", slot, NA, NA, NA, NA, NA, NA, o)
             /\ failed' = Failed(o)
    /\ UNCHANGED <<sess, kdrv, claimed, hcalls, dev, hdr>>

\* presets and brightness used on the record/replay transport
ReplayPresets == {"Static", "Wave"}

ReplayBrightness == {30}

ReplaySetPreset ==
    /\ sess = "open"
    /\ last = NoCall
    /\ \E preset \in ReplayPresets, brightness \in ReplayBrightness :
         LET o == SetPreset(PresetCode[preset], 5, brightness, ColorCode["Red"], 8)
         IN  /\ xfers' = o.xfers
             /\ last' = Call("set_preset", NA, NA, NA, preset, 5, brightness, "Red", o)
             /\ failed' = Failed(o)
             /\ dev' = [dev EXCEPT !.active = Activated(dev.active, o.xfers)]
    /\ UNCHANGED <<sess, kdrv, claimed, hcalls, hdr>>

ReplaySetCustom ==
    /\ sess = "open"
    /\ last = NoCall
    /\ \E slot \in Slots, brightness \in ReplayBrightness :
         LET o == SetCustom(slot, brightness, 8)
         IN  /\ xfers' = o.xfers
             /\ last' = Call("set_custom", slot, NA, NA, NA, NA, brightness, NA, o)
             /\ failed' = Failed(o)
             /\ dev' = [dev EXCEPT !.active = Activated(dev.active, o.xfers)]
    /\ UNCHANGED <<sess, kdrv, claimed, hcalls, hdr>>

NextReplay ==
    \/ CallNew
    \/ ReplayUpload
    \/ ReplayDownload
    \/ ReplaySetPreset
    \/ ReplaySetCustom
    \/ Return

SpecReplay == Init /\ [][NextReplay]_vars

----------------------------------------------------------------------------
(* Properties *)

\* the sum of the first n elements, without wraparound
RECURSIVE SumTo(_, _)
SumTo(bytes, n) == IF n = 0 THEN 0 ELSE SumTo(bytes, n - 1) + bytes[n]

IsChunk(x) == x.dir \in {"interrupt_out", "interrupt_in"} /\ x.ep \in {EP_UPLOAD, EP_DOWNLOAD}
Chunks == SelectSeq(xfers, IsChunk)
NoTransportError == \A k \in 1..Len(xfers) : xfers[k].res >= 0
IsShort(x) == IsChunk(x) /\ x.res >= 0 /\ x.res < ChunkLen
BulkCall == last.op \in {"upload_custom", "download_custom"}
\* a bulk call whose arguments let all eight chunks be addressed
FullBulkCall ==
    /\ BulkCall
    /\ last.slot < NumSlots
    /\ last.op = "upload_custom" => last.len >= ConfigLen

\* C1: for every input tuple of bytes, the checksum of the header built by
\* Header::new is the bitwise complement of the sum modulo 256 of its first 7
\* bytes, so that the 8 bytes sum to 0xFF modulo 256.
C1_ChecksumIsComplement ==
    hdr.built =>
        LET b == <<hdr.out.kind, hdr.out.reserved, hdr.out.mode, hdr.out.speed_length,
                   hdr.out.brightness, hdr.out.color, hdr.out.reserved2>>
            ck == hdr.out.checksum
        IN  /\ ck \in Byte
            /\ \A j \in 0..7 :
                 ((ck \div (2 ^ j)) % 2) = 1 - (((SumTo(b, 7) % 256) \div (2 ^ j)) % 2)
            /\ (SumTo(b, 7) + ck) % 256 = 255
            /\ <<hdr.out.kind, hdr.out.mode, hdr.out.speed_length,
                 hdr.out.brightness, hdr.out.color>> = hdr.in

\* a header was built from bytes whose sum wraps around more than once
C1_Witness ==
    /\ hdr.built
    /\ hdr.in[1] + hdr.in[2] + hdr.in[3] + hdr.in[4] + hdr.in[5] >= 512
    /\ hdr.out.checksum # 0

\* C2: every control Out transfer issued by set_preset, upload_custom,
\* download_custom or set_custom carries exactly 8 bytes, in the order kind,
\* reserved, mode, speed_length, brightness, color, reserved2, checksum, with
\* both reserved bytes 0 and a checksum valid for the other 7 bytes.
C2_ControlOutIsHeader ==
    \A k \in 1..Len(xfers) :
        xfers[k].dir = "control_out" =>
            LET x == xfers[k]
            IN  /\ last.op \in {"set_preset", "upload_custom", "download_custom", "set_custom"}
                /\ x.len = 8
                /\ Len(x.buf) = 8
                /\ \A j \in 1..8 : x.buf[j] \in Byte
                /\ x.buf[1] = x.hdr.kind
                /\ x.buf[2] = 0
                /\ x.buf[3] = x.hdr.mode
                /\ x.buf[4] = x.hdr.speed_length
                /\ x.buf[5] = x.hdr.brightness
                /\ x.buf[6] = x.hdr.color
                /\ x.buf[7] = 0
                /\ x.buf[8] = 255 - (SumTo(x.buf, 7) % 256)

\* a preset header with every payload field non-zero went out
C2_Witness ==
    /\ last.op = "set_preset"
    /\ Len(xfers) = 1
    /\ xfers[1].dir = "control_out"
    /\ xfers[1].res = 8
    /\ \A j \in {1, 3, 4, 5, 6} : xfers[1].buf[j] # 0

\* C3: without a transport error, upload_custom with slot < 5 and 512 bytes of
\* data issues one control Out transfer of the header (kind 0x12, mode = slot,
\* speed_length 8, brightness 0, color 0) and then exactly 8 interrupt Out
\* transfers to endpoint 0x06 of 64 bytes each, the i-th carrying data bytes
\* [64*i, 64*i+64), in ascending order, and nothing else.
C3_UploadSequence ==
    (/\ last.op = "upload_custom"
     /\ last.slot < 5
     /\ last.len = 512
     /\ NoTransportError)
    =>  /\ Len(xfers) = 9
        /\ xfers[1].dir = "control_out"
        /\ xfers[1].buf = <<18, 0, last.slot, 8, 0, 0, 0, 255 - ((18 + last.slot + 8) % 256)>>
        /\ \A i \in 0..7 :
             LET x == xfers[i + 2]
             IN  /\ x.dir = "interrupt_out"
                 /\ x.ep = 6
                 /\ x.tmo = 0
                 /\ x.off = 64 * i
                 /\ x.len = 64
                 /\ x.buf = [j \in 1..64 |-> Data(last.pat, last.len)[64 * i + j]]

\* an upload of 512 bytes to the last slot went through without error
C3_Witness ==
    /\ last.op = "upload_custom"
    /\ last.slot = 4
    /\ last.len = 512
    /\ last.res = "Ok"
    /\ last.diags = <<>>
    /\ Len(xfers) = 9

\* C4: upload_custom, download_custom and set_custom with slot >= 5 are
\* rejected before any control or interrupt transfer is issued.
C4_BadSlotRejected ==
    (/\ last.op \in {"upload_custom", "download_custom", "set_custom"}
     /\ last.slot >= 5)
    =>  /\ xfers = <<>>
        /\ last.res = "Panic"
        /\ last.op = "download_custom" => last.out = FreshBuffer

\* download_custom was called with slot 5, the first invalid one
C4_Witness ==
    /\ last.op = "download_custom"
    /\ last.slot = 5
    /\ last.res = "Panic"

\* position of a handle call in hcalls, 0 when it was not made
PosOf(call, iface) ==
    IF \E k \in 1..Len(hcalls) : hcalls[k].call = call /\ hcalls[k].iface = iface
    THEN CHOOSE k \in 1..Len(hcalls) : hcalls[k].call = call /\ hcalls[k].iface = iface
    ELSE 0
\* both calls were attempted, the first before the second
Before(call1, iface1, call2, iface2) ==
    /\ PosOf(call1, iface1) > 0
    /\ PosOf(call1, iface1) < PosOf(call2, iface2)

C6_TeardownBestEffort ==
    last.op = "drop" =>
        /\ Len(hcalls) = 4
        /\ \A c \in {"release_interface", "attach_kernel_driver"}, i \in {0, 3} :
             Cardinality({k \in 1..Len(hcalls) :
                            hcalls[k].call = c /\ hcalls[k].iface = i}) = 1
        /\ last.res = "Ok"
        /\ sess = "dropped"

\* a session was dropped with every sub-step failing
C6_Witness ==
    /\ last.op = "drop"
    /\ Len(hcalls) = 4
    /\ \A k \in 1..Len(hcalls) : hcalls[k].res = "err"

\* C7: on the record/replay transport, without transport error, upload_custom
\* (slot, data) followed by download_custom(slot, out) leaves out equal to
\* the 512 bytes of data, for every slot in 0..4.
C7_RoundTrip ==
    (/\ last.op = "download_custom"
     /\ last.slot < 5
     /\ dev.slot = last.slot
     /\ dev.len >= 512
     /\ Len(dev.chunks) = 8)
    =>  /\ last.res = "Ok"
        /\ Len(last.out) = 512
        /\ \A k \in 1..512 : last.out[k] = DataByte(dev.pat, k - 1)

\* slot 4 was uploaded with the second pattern and read back
C7_Witness ==
    /\ last.op = "download_custom"
    /\ last.slot = 4
    /\ dev.slot = 4
    /\ dev.pat = 1
    /\ dev.len = 512
    /\ Len(dev.chunks) = 8
    /\ last.res = "Ok"

\* C8 as stated: when the transfer of chunk i of upload_custom or
\* download_custom fails, the transfers of chunks i+1..7 are still issued.
C8_FailureDoesNotAbort ==
    (/\ FullBulkCall
     /\ \E k \in 1..Len(xfers) : IsChunk(xfers[k]) /\ xfers[k].res = ERR)
    =>  /\ Len(Chunks) = 8
        /\ \A i \in 0..7 : Chunks[i + 1].off = 64 * i

\* C8 amended: when the transport reports a transfer failure for chunk i of
\* upload_custom or download_custom, the operation aborts the sequence: it
\* returns the error, chunks 0..i were issued in order and the transfers for
\* chunks i+1..7 are not issued.
C8_FailureAborts ==
    \A k \in 1..Len(xfers) :
        (BulkCall /\ IsChunk(xfers[k]) /\ xfers[k].res = ERR)
        =>  /\ k = Len(xfers)
            /\ last.res = "Err"
            /\ Len(Chunks) = (xfers[k].off \div 64) + 1
            /\ \A i \in 1..Len(Chunks) :
                 /\ Chunks[i].off = 64 * (i - 1)
                 /\ i < Len(Chunks) => Chunks[i].res >= 0

\* the transfer of chunk 3 of an upload failed
C8_Witness ==
    /\ last.op = "upload_custom"
    /\ Len(xfers) = 5
    /\ xfers[5].off = 192
    /\ xfers[5].res = ERR

\* C9: when a chunk transfer of upload_custom or download_custom reports
\* fewer than 64 bytes, the operation continues with the next chunk at its
\* unchanged offset; with no transport error all 8 chunk transfers are
\* issued and the operation returns success.
C9_ShortChunkContinues ==
    (FullBulkCall /\ \E k \in 1..Len(xfers) : IsShort(xfers[k]))
    =>  /\ \A k \in 1..Len(xfers) :
             (IsShort(xfers[k]) /\ xfers[k].off < 448)
             =>  /\ k < Len(xfers)
                 /\ IsChunk(xfers[k + 1])
                 /\ xfers[k + 1].off = xfers[k].off + 64
        /\ NoTransportError
           =>  /\ Len(Chunks) = 8
               /\ \A i \in 0..7 : Chunks[i + 1].off = 64 * i /\ Chunks[i + 1].len = 64
               /\ last.res = "Ok"

\* an upload whose first chunk transferred nothing returned Ok
C9_Witness ==
    /\ last.op = "upload_custom"
    /\ last.res = "Ok"
    /\ Len(xfers) = 9
    /\ xfers[2].res = 0
    /\ last.diags = <<0>>

\* C10: get_key issues exactly one interrupt In transfer on endpoint 0x81 and
\* never returns an error; when the transfer times out or fails it reports
\* that no key is pressed, and the session stays open.
C10_GetKeyNeverFails ==
    last.op = "get_key" =>
        /\ Len(xfers) = 1
        /\ xfers[1].dir = "interrupt_in"
        /\ xfers[1].ep = 129
        /\ xfers[1].len = 8
        /\ last.res \in {"Some", "None"}
        /\ xfers[1].res < 0 => last.res = "None"
        /\ sess = "open"
        /\ claimed = Ifaces

\* get_key ran into the timeout
C10_Witness ==
    /\ last.op = "get_key"
    /\ xfers[1].res = TIMEOUT
    /\ last.res = "None"


\* C11: for every preset, color, speed and brightness, set_preset issues
\* exactly one control Out transfer whose header is kind 0x08, mode = code of
\* the preset (0x01..0x0d), speed_length = speed, brightness = brightness,
\* color = code of the color (0x00..0x07), and no interrupt transfer; when
\* the transfer fails the error is returned and the transfer is not retried.
C11_SetPresetOneTransfer ==
    last.op = "set_preset" =>
        LET x == xfers[1]
            mode == PresetCode[last.preset]
            col == ColorCode[last.color]
        IN  /\ Len(xfers) = 1
            /\ x.dir = "control_out"
            /\ mode \in 1..13
            /\ col \in 0..7
            /\ last.preset = "Wave" => mode = 3
            /\ last.color = "Blue" => col = 4
            /\ \A p \in Presets : p # last.preset => PresetCode[p] # mode
            /\ \A c \in Colors : c # last.color => ColorCode[c] # col
            /\ x.buf = <<8, 0, mode, last.speed, last.brightness, col, 0,
                         255 - ((8 + mode + last.speed + last.brightness + col) % 256)>>
            /\ x.res = ERR => last.res = "Err"
            /\ x.res >= 0 => last.res = "Ok"

\* set_preset(Wave, 5, 20, Blue) was called and its transfer failed
C11_Witness ==
    /\ last.op = "set_preset"
    /\ last.preset = "Wave"
    /\ last.speed = 5
    /\ last.brightness = 20
    /\ last.color = "Blue"
    /\ Len(xfers) = 1
    /\ xfers[1].buf = <<8, 0, 3, 5, 20, 4, 0, 215>>
    /\ last.res = "Err"

\* C12: for every slot in 0..4 and every brightness, set_custom issues exactly
\* one control Out transfer whose header is kind 0x08, mode = 0x33 + slot,
\* speed_length 0, brightness = brightness, color 0; the mode lies in
\* 0x33..0x37 and is not the code of a built-in preset.
C12_SetCustomMode ==
    (last.op = "set_custom" /\ last.slot < 5)
    =>  /\ Len(xfers) = 1
        /\ xfers[1].dir = "control_out"
        /\ xfers[1].buf = <<8, 0, 51 + last.slot, 0, last.brightness, 0, 0,
                            255 - ((8 + 51 + last.slot + last.brightness) % 256)>>
        /\ xfers[1].buf[3] \in 51..55
        /\ \A p \in Presets : PresetCode[p] # xfers[1].buf[3]

\* set_custom(2, 30) was called
C12_Witness ==
    /\ last.op = "set_custom"
    /\ last.slot = 2
    /\ last.brightness = 30
    /\ Len(xfers) = 1
    /\ xfers[1].buf[3] = 53
    /\ last.res = "Ok"


\* C13: without a transport error, download_custom with slot < 5 issues, in
\* this order and nothing else: one control Out transfer of the header (kind
\* 0x92, mode = slot, speed_length, brightness and color 0), one control In
\* handshake into an 8-byte buffer that is dropped, then 8 interrupt In
\* transfers of 64 bytes from endpoint 0x85, the i-th stored at output bytes
\* [64*i, 64*i+64).
C13_DownloadSequence ==
    (/\ last.op = "download_custom"
     /\ last.slot < 5
     /\ NoTransportError)
    =>  /\ Len(xfers) = 10
        /\ xfers[1].dir = "control_out"
        /\ xfers[1].buf = <<146, 0, last.slot, 0, 0, 0, 0, 255 - ((146 + last.slot) % 256)>>
        /\ xfers[2].dir = "control_in"
        /\ xfers[2].rt = 161
        /\ xfers[2].len = 8
        /\ Len(last.out) = 512
        /\ \A i \in 0..7 :
             LET x == xfers[i + 3]
             IN  /\ x.dir = "interrupt_in"
                 /\ x.ep = 133
                 /\ x.tmo = 0
                 /\ x.off = 64 * i
                 /\ x.len = 64
                 /\ Len(x.buf) = x.res
                 /\ \A j \in 1..64 :
                      last.out[64 * i + j] = IF j <= x.res THEN x.buf[j] ELSE 238

\* slot 3 was downloaded with every chunk complete
C13_Witness ==
    /\ last.op = "download_custom"
    /\ last.slot = 3
    /\ last.res = "Ok"
    /\ last.diags = <<>>
    /\ Len(xfers) = 10
    /\ last.out[512] # 238

\* C18 as stated: the handshake control In transfer of download_custom uses
\* the same request, value and index as the header control Out transfer that
\* precedes it.
C18_HandshakeSameRequest ==
    (last.op = "download_custom" /\ Len(xfers) >= 2)
    =>  /\ xfers[2].dir = "control_in"
        /\ xfers[2].req = xfers[1].req
        /\ xfers[2].val = xfers[1].val
        /\ xfers[2].idx = xfers[1].idx

\* C18 amended: the handshake control In transfer of download_custom uses the
\* same value (0x0300) and index (0x0003) as the header control Out transfer
\* that precedes it, and request 0x01 where the header transfer uses 0x09.
C18_HandshakeParameters ==
    (last.op = "download_custom" /\ Len(xfers) >= 2)
    =>  /\ xfers[1].dir = "control_out"
        /\ xfers[2].dir = "control_in"
        /\ xfers[1].req = 9
        /\ xfers[2].req = 1
        /\ xfers[2].val = xfers[1].val
        /\ xfers[2].val = 768
        /\ xfers[2].idx = xfers[1].idx
        /\ xfers[2].idx = 3

\* the handshake of a download went through
C18_Witness ==
    /\ last.op = "download_custom"
    /\ Len(xfers) >= 2
    /\ xfers[2].dir = "control_in"
    /\ xfers[2].res = 8

\* C19: when the header control Out transfer of upload_custom or
\* download_custom fails, or the handshake control In transfer of
\* download_custom fails, the operation returns that error and issues no
\* interrupt transfer; in download_custom the output buffer is unchanged.
C19_ControlFailureStops ==
    \A k \in 1..Len(xfers) :
        (/\ BulkCall
         /\ xfers[k].dir \in {"control_out", "control_in"}
         /\ xfers[k].res = ERR)
        =>  /\ k = Len(xfers)
            /\ last.res = "Err"
            /\ Chunks = <<>>
            /\ last.op = "download_custom" => last.out = FreshBuffer

\* the handshake of a download failed
C19_Witness ==
    /\ last.op = "download_custom"
    /\ Len(xfers) = 2
    /\ xfers[2].dir = "control_in"
    /\ xfers[2].res = ERR
    /\ last.res = "Err"


\* C20: upload_custom does not check the length of data before it starts
\* transferring: with slot < 5 and n < 512 bytes it has issued the header
\* control transfer and the floor(n/64) complete chunks when it fails on the
\* first chunk that does not fit, and it never sends a byte outside data;
\* with more than 512 bytes it sends only the first 512.
C20_UploadNoLengthCheck ==
    (/\ last.op = "upload_custom"
     /\ last.slot < 5
     /\ NoTransportError)
    =>  LET n == last.len
            full == IF n < 512 THEN n \div 64 ELSE 8
        IN  /\ Len(xfers) = 1 + full
            /\ xfers[1].dir = "control_out"
            /\ xfers[1].buf[1] = 18
            /\ \A i \in 1..full :
                 LET x == xfers[i + 1]
                 IN  /\ x.dir = "interrupt_out"
                     /\ x.off = 64 * (i - 1)
                     /\ x.len = 64
                     /\ x.off + x.len <= n
                     /\ x.off + x.len <= 512
                     /\ \A j \in 1..64 : x.buf[j] = DataByte(last.pat, x.off + j - 1)
            /\ n < 512 => last.res = "Panic"
            /\ n >= 512 => last.res = "Ok"

\* an upload of 130 bytes failed at its third chunk
C20_Witness ==
    /\ last.op = "upload_custom"
    /\ last.slot < 5
    /\ last.len = 130
    /\ last.res = "Panic"
    /\ Len(xfers) = 3
    /\ xfers[3].off = 64


\* the handle call was made with this result
Made(call, iface, res) ==
    \E k \in 1..Len(hcalls) : hcalls[k] = HCall(call, iface, res)

\* C16: a control or interrupt transfer is issued only by a session that
\* holds the claim on both interface 0 and interface 3: new returns a session
\* only after both claims succeeded, each interface is claimed only after its
\* kernel driver was detached when one was active, and no operation other
\* than teardown releases a claim.
C16_TransfersOnlyWhenClaimed ==
    /\ xfers # <<>> => (sess = "open" /\ claimed = {0, 3})
    /\ sess = "open" => (claimed = {0, 3} /\ kdrv \cap {0, 3} = {})
    /\ claimed # {} => sess = "open"
    /\ (last.op = "new" /\ last.res # "Ok") => sess = "none"
    /\ (last.op = "new" /\ last.res = "Ok")
       =>  /\ sess = "open"
           /\ \A i \in {0, 3} :
                /\ Made("claim_interface", i, "ok")
                /\ Before("kernel_driver_active", i, "claim_interface", i)
                /\ \/ Made("kernel_driver_active", i, "false")
                   \/ /\ Made("kernel_driver_active", i, "true")
                      /\ Made("detach_kernel_driver", i, "ok")
                      /\ Before("kernel_driver_active", i, "detach_kernel_driver", i)
                      /\ Before("detach_kernel_driver", i, "claim_interface", i)

\* new returned a session after detaching both kernel drivers
C16_Witness ==
    /\ last.op = "new"
    /\ last.res = "Ok"
    /\ sess = "open"
    /\ Made("detach_kernel_driver", 0, "ok")
    /\ Made("detach_kernel_driver", 3, "ok")
    /\ claimed = {0, 3}

\* C17: when new fails at any step, no session is returned and what new had
\* acquired is given back: no interface stays claimed and no kernel driver
\* that new detached stays detached.
C17_OpenFailsAtomically ==
    (last.op = "new" /\ last.res = "Err")
    =>  /\ sess = "none"
        /\ claimed = {}
        /\ \A i \in {0, 3} : Made("detach_kernel_driver", i, "ok") => i \in kdrv


\* the sub-steps of teardown, each made once
TornDownOnce(calls) ==
    /\ Len(calls) = 4
    /\ \A c \in {"release_interface", "attach_kernel_driver"}, i \in {0, 3} :
         Cardinality({k \in 1..Len(calls) : calls[k].call = c /\ calls[k].iface = i}) = 1

\* C14: for every session returned by new, after any sequence of operations,
\* including operations that returned a transfer error or were rejected for
\* an invalid slot, the end of the session performs teardown exactly once,
\* and the session issues no control or interrupt transfer after teardown
\* started.
C14_TeardownOnceAtEnd ==
    [][ /\ (sess = "open" /\ sess' # "open")
           =>  /\ sess' = "dropped"
               /\ last'.op = "drop"
               /\ TornDownOnce(hcalls')
               /\ xfers' = <<>>
        /\ last'.op = "drop" => (sess = "open" /\ sess' = "dropped")
        /\ sess = "dropped"
           =>  /\ sess' = "dropped"
               /\ xfers' = xfers
               /\ hcalls' = hcalls
      ]_vars

\* a session on which a call had failed was torn down
C14_Witness ==
    /\ sess = "dropped"
    /\ failed
    /\ last.op = "drop"
    /\ TornDownOnce(hcalls)
    /\ xfers = <<>>


\* C15: upload_custom does not activate the uploaded slot: it issues no
\* header of kind PRESET (0x08), so the device's active lighting mode after
\* upload_custom equals the mode before it, and the slot becomes active only
\* after a later set_custom call for that slot.
C15_UploadDoesNotActivate ==
    [][ /\ last'.op = "upload_custom"
           =>  /\ \A k \in 1..Len(xfers') :
                    xfers'[k].dir = "control_out" => xfers'[k].buf[1] # 8
               /\ dev'.active = dev.active
        /\ (dev'.active # dev.active /\ dev'.active \in 51..55)
           =>  /\ last'.op = "set_custom"
               /\ last'.res = "Ok"
               /\ last'.slot = dev'.active - 51
      ]_vars

\* slot 2 was uploaded in full while the device showed custom slot 0
C15_Witness ==
    /\ last.op = "upload_custom"
    /\ last.res = "Ok"
    /\ last.slot = 2
    /\ dev.slot = 2
    /\ Len(dev.chunks) = 8
    /\ Len(xfers) = 9
    /\ dev.active = 51

====
